---- MODULE Spec2Model ----
(***************************************************************************)
(* Performance-analysis pipeline of rust-audio-engine (src/analyzer.rs):   *)
(* YIN pitch detection (detect_pitch_yin), spectral-flux onset detection   *)
(* (detect_onsets) and per-note dynamics (analyze_dynamics).               *)
(*                                                                         *)
(* Number model.  The code computes in f32/f64; the model computes in      *)
(* integer fixed point and names the unit of every quantity:               *)
(*   sample amplitude   1/100       (a sample value 100 is 1.0)            *)
(*   rms, energy        1/10000                                            *)
(*   cmnd, confidence   1/1000                                             *)
(*   lag (better_tau)   1/1000 sample                                      *)
(*   frequency          1/10 Hz                                            *)
(*   log2, midi_float   1/1024                                             *)
(*   time               1/1000 s                                           *)
(* An f32 that may be NaN or infinite is a record [k, v] with k one of     *)
(* "num", "nan", "inf" (v the fixed-point value, or the sign of the        *)
(* infinity).  usize arithmetic is integer arithmetic; an index out of     *)
(* range, an inverted slice and an integer division by zero are panics     *)
(* (pc = "panic").                                                         *)
(*                                                                         *)
(* A sample buffer is [pat, len]: the buffer of len samples whose sample j *)
(* is pat[(j % Len(pat)) + 1].  The 2048- and 8192-sample windows of       *)
(* detect_pitch_yin are kept at their size: their buffers repeat a short   *)
(* pattern or are zero but for one burst.  The buffers of detect_onsets    *)
(* and analyze_dynamics are written out in full (Len(pat) = len).          *)
(***************************************************************************)
EXTENDS Integers, Sequences, FiniteSets, TLC

VARIABLES
  samples,    \* the input buffer (&[f32]): [pat, len]
  params,     \* YinParams / OnsetParams / the sample_rate of analyze_dynamics
  pc,         \* position of the call in its function
  tau,        \* detect_pitch_yin: the lag of the threshold search
  rms,        \* detect_pitch_yin: rms of the buffer (line 70)
  examined,   \* detect_pitch_yin: the lags whose cmnd the threshold search has read
  better_tau, \* detect_pitch_yin: the interpolated lag (line 128)
  result,     \* detect_pitch_yin: Option<PitchResult>
  flux,       \* detect_onsets: spectral flux per frame pair
  energy,     \* detect_onsets: energy envelope per hop
  i,          \* loop index of detect_onsets / analyze_dynamics
  onsets,     \* detect_onsets: the Vec<OnsetEvent> built; analyze_dynamics: its input
  segments,   \* analyze_dynamics: the slices audio[start..end] taken so far
  results,    \* analyze_dynamics: the Vec<DynamicsEvent> built
  midi,              \* the parsed MIDI file: header timing and channel messages
  events,            \* synthesize_file: the (time, message) pairs collected
  total_samples,     \* synthesize_file: frames per channel (line 91)
  current_sample,    \* synthesize_file: first frame of the next chunk
  event_index,       \* synthesize_file: events sent so far
  dispatched,        \* synthesize_file: the events sent to the synthesizer, in order
  rendered,          \* synthesize_file: frames rendered so far
  audio_samples,     \* synthesize_midi_internal: length of the interleaved Vec<f32>
  processed_samples, \* synthesize_midi_internal: length of the Vec<f32> after effects
  duration,          \* synthesize_midi_internal: the f64 returned
  gpu,               \* MetalEffectsProcessor: what the GPU did in this call
  reverb_path,       \* MetalEffectsProcessor::process: the code that made the output
  previous,   \* what the call before this one returned, on the same arguments
  calls       \* number of the call in progress on these arguments (from 1)

synth_vars == <<midi, events, total_samples, current_sample, event_index, dispatched, rendered,
                audio_samples, processed_samples, duration, gpu, reverb_path>>

call_vars == <<previous, calls>>

analysis_vars == <<samples, tau, rms, examined, better_tau, result, flux, energy, i,
                   onsets, segments, results>>

vars == <<samples, params, pc, tau, rms, examined, better_tau, result, flux, energy, i,
          onsets, segments, results, synth_vars, call_vars>>

-----------------------------------------------------------------------------
(* Arithmetic *)

Abs(x) == IF x < 0 THEN -x ELSE x
Min(a, b) == IF a <= b THEN a ELSE b
Max(a, b) == IF a >= b THEN a ELSE b

\* usize::saturating_sub
SaturatingSub(a, b) == IF a >= b THEN a - b ELSE 0

\* a / b of two numbers, rounded to the nearest (b # 0)
RoundDiv(a, b) ==
  LET q == (2 * Abs(a) + Abs(b)) \div (2 * Abs(b))
  IN IF (a < 0) = (b < 0) THEN q ELSE -q

\* f32::sqrt on a non-negative fixed-point operand: the floor of the root
RECURSIVE SqrtSearch(_, _, _)
SqrtSearch(n, lo, hi) ==
  IF lo >= hi THEN lo
  ELSE LET mid == (lo + hi + 1) \div 2
       IN IF mid * mid <= n THEN SqrtSearch(n, mid, hi) ELSE SqrtSearch(n, lo, mid - 1)

ISqrt(n) == SqrtSearch(n, 0, 46340)

\* f32 values that can leave the finite numbers
FNum(v) == [k |-> "num", v |-> v]
FNaN == [k |-> "nan", v |-> 0]
FInf(sign) == [k |-> "inf", v |-> sign]

Sign(x) == IF x < 0 THEN -1 ELSE 1

-----------------------------------------------------------------------------
(* Sample buffers *)

SampleAt(s, j) == s.pat[(j % Len(s.pat)) + 1]

\* sum of s[j]^2 for j in lo..hi (iter().map(|&s| s * s).sum())
RECURSIVE SumSquares(_, _, _)
SumSquares(s, lo, hi) ==
  IF lo > hi THEN 0
  ELSE IF lo = hi THEN SampleAt(s, lo) * SampleAt(s, lo)
  ELSE LET mid == (lo + hi) \div 2
       IN SumSquares(s, lo, mid) + SumSquares(s, mid + 1, hi)

\* calculate_rms of the slice s[lo..hi), in 1/10000
calculate_rms(s, lo, hi) ==
  IF hi <= lo THEN 0
  ELSE ISqrt((SumSquares(s, lo, hi - 1) * 10000) \div (hi - lo))


\* f32::log2 of the positive ratio a / b, in 1/1024: the integer part by
\* doubling, ten fractional bits by repeated squaring of the mantissa
RECURSIVE Log2Frac(_, _)
Log2Frac(m, bits) ==
  IF bits = 0 THEN 0
  ELSE LET sq == (m * m) \div 16384
       IN IF sq >= 32768 THEN (2 ^ (bits - 1)) + Log2Frac(sq \div 2, bits - 1)
          ELSE Log2Frac(sq, bits - 1)

RECURSIVE Log2Fix(_, _)
Log2Fix(a, b) ==
  IF a >= 65536 \/ b >= 65536 THEN Log2Fix(a \div 2, b \div 2)
  ELSE IF a < b THEN Log2Fix(2 * a, b) - 1024
  ELSE IF a >= 2 * b THEN Log2Fix(a, 2 * b) + 1024
  ELSE Log2Frac((a * 16384) \div b, 10)

\* f32::round (half away from zero) of a value in 1/1024
RoundMidi(x) == IF x >= 0 THEN (x + 512) \div 1024 ELSE -((512 - x) \div 1024)

-----------------------------------------------------------------------------
(* detect_pitch_yin *)

None == [tag |-> "None"]
Some(v) == [tag |-> "Some", value |-> v]

MinBufferLen == 2048
MaxWindow == 8192
\* the silence gate 0.01, in 1/10000
SilenceRms == 100

\* wrong variant of the lower lag bound: rounded to the nearest integer
min_lag_rounded(p) == RoundDiv(p.sample_rate, p.max_frequency)
\* (sample_rate as f32 / frequency) as usize: truncation
min_lag(p) == p.sample_rate \div p.max_frequency
max_lag(p) == p.sample_rate \div p.min_frequency

buffer_size(s) == Min(s.len, MaxWindow)

\* wrong variant of the half window: half the buffer, without the 8192 cap
half_buffer_uncapped(s) == s.len \div 2
half_buffer(s) == buffer_size(s) \div 2

too_short(s) == s.len < MinBufferLen

\* wrong variant of the silence gate: no buffer counts as silent
never_silent(r) == FALSE
is_silent(r) == r < SilenceRms
lag_out_of_window(s, p) == max_lag(p) >= half_buffer(s)

\* Step 1: diff[t] = sum over j in 0..half_buffer-1 of (samples[j] - samples[j + t])^2
RECURSIVE DiffSum(_, _, _, _)
DiffSum(s, t, lo, hi) ==
  IF lo > hi THEN 0
  ELSE IF lo = hi
    THEN LET delta == SampleAt(s, lo) - SampleAt(s, lo + t) IN delta * delta
  ELSE LET mid == (lo + hi) \div 2
       IN DiffSum(s, t, lo, mid) + DiffSum(s, t, mid + 1, hi)

diff(s, t) == DiffSum(s, t, 0, half_buffer(s) - 1)

\* the largest index of samples that Step 1 reads (-1: none)
max_sample_read(s) ==
  IF half_buffer(s) = 0 THEN -1 ELSE (half_buffer(s) - 1) + (half_buffer(s) - 1)

\* Step 2: running_sum after the iteration for t, and cmnd[t] in 1/1000
RECURSIVE running_sum(_, _)
running_sum(s, t) == IF t = 0 THEN 0 ELSE running_sum(s, t - 1) + diff(s, t)

cmnd(s, t) ==
  IF t = 0 THEN 1000
  ELSE LET d == diff(s, t)
           rsum == running_sum(s, t - 1) + d
       IN IF rsum > 0 THEN RoundDiv(d * t * 1000, rsum) ELSE 1000

\* Step 4: parabolic interpolation, the lag in 1/1000 sample
interpolate(s, t) ==
  IF t > 0 /\ t < half_buffer(s) - 1
  THEN LET s0 == cmnd(s, t - 1)
           s1 == cmnd(s, t)
           s2 == cmnd(s, t + 1)
           num == s2 - s0
           den == 2 * (2 * s1 - s0 - s2)
       IN IF den = 0
          THEN (IF num = 0 THEN FNaN ELSE FInf(Sign(num)))
          ELSE FNum(t * 1000 + RoundDiv(num * 1000, den))
  ELSE FNum(t * 1000)

\* sample_rate as f32 / better_tau, in 1/10 Hz
frequency_of(p, bt) ==
  IF bt.k = "nan" THEN FNaN
  ELSE IF bt.k = "inf" THEN FNum(0)
  ELSE IF bt.v = 0 THEN (IF p.sample_rate = 0 THEN FNaN ELSE FInf(1))
  ELSE FNum(RoundDiv(p.sample_rate * 10000, bt.v))

\* 69.0 + 12.0 * (frequency / 440.0).log2(), in 1/1024
exact_midi(f) ==
  IF f.k = "nan" THEN FNaN
  ELSE IF f.k = "inf" THEN (IF f.v > 0 THEN FInf(1) ELSE FNaN)
  ELSE IF f.v < 0 THEN FNaN
  ELSE IF f.v = 0 THEN FInf(-1)
  ELSE FNum(69 * 1024 + 12 * Log2Fix(f.v, 4400))

\* frequency_to_midi: midi_float.round().clamp(21.0, 108.0) as u8
\* (clamp keeps NaN, and NaN as u8 is 0)
frequency_to_midi(f) ==
  LET m == exact_midi(f)
  IN IF m.k = "nan" THEN 0
     ELSE IF m.k = "inf" THEN (IF m.v > 0 THEN 108 ELSE 21)
     ELSE Max(21, Min(108, RoundMidi(m.v)))

\* (exact_midi - midi_note as f32) * 100.0, in 1/1024 cent
cents_offset_of(f, note) ==
  LET m == exact_midi(f)
  IN IF m.k = "num" THEN FNum((m.v - note * 1024) * 100) ELSE m

\* wrong variant of the confidence: cmnd is not capped at 1
confidence_unclamped(c) == 1000 - c
\* confidence = 1.0 - cmnd[tau].min(1.0)
confidence_of(c) == 1000 - Min(c, 1000)

PitchResultOf(s, p, t, bt, r) ==
  LET f == frequency_of(p, bt)
      note == frequency_to_midi(f)
  IN [frequency |-> f,
      confidence |-> confidence_of(cmnd(s, t)),
      midi_note |-> note,
      cents_offset |-> cents_offset_of(f, note),
      rms_level |-> r]

\* lines 63-107: the guards, then the difference and cmnd arrays
YinGuards ==
  /\ pc = "yin_start"
  /\ IF too_short(samples)
     THEN /\ pc' = "yin_done"
          /\ result' = None
          /\ UNCHANGED <<rms, tau>>
     ELSE LET r == calculate_rms(samples, 0, samples.len)
          IN /\ rms' = r
             /\ IF is_silent(r) \/ lag_out_of_window(samples, params)
                THEN /\ pc' = "yin_done"
                     /\ result' = None
                     /\ UNCHANGED tau
                ELSE IF max_sample_read(samples) >= samples.len
                THEN /\ pc' = "panic"
                     /\ UNCHANGED <<result, tau>>
                ELSE /\ pc' = "yin_search"
                     /\ tau' = min_lag(params)
                     /\ UNCHANGED result
  /\ UNCHANGED <<synth_vars, call_vars>>
  /\ UNCHANGED <<samples, params, examined, better_tau, flux, energy, i, onsets,
                 segments, results>>

\* lines 111-120: one iteration of the outer while of the threshold search
ThresholdSearch ==
  /\ pc = "yin_search"
  /\ IF tau < max_lag(params)
     THEN IF tau >= half_buffer(samples)
          THEN /\ pc' = "panic"
               /\ UNCHANGED <<tau, examined>>
          ELSE /\ examined' = examined \cup {tau}
               /\ IF cmnd(samples, tau) < params.threshold
                  THEN /\ pc' = "yin_descend"
                       /\ UNCHANGED tau
                  ELSE /\ tau' = tau + 1
                       /\ UNCHANGED pc
     ELSE /\ pc' = "yin_check"
          /\ UNCHANGED <<tau, examined>>
  /\ UNCHANGED <<synth_vars, call_vars>>
  /\ UNCHANGED <<samples, params, rms, better_tau, result, flux, energy, i, onsets,
                 segments, results>>

\* wrong variant of the descent: the first lag below the threshold is taken
DescendSkipped ==
  /\ pc = "yin_descend"
  /\ pc' = "yin_check"
  /\ UNCHANGED <<tau, examined>>
  /\ UNCHANGED <<synth_vars, call_vars>>
  /\ UNCHANGED <<samples, params, rms, better_tau, result, flux, energy, i, onsets,
                 segments, results>>
\* lines 114-117: one iteration of the descent to the local minimum
Descend ==
  /\ pc = "yin_descend"
  /\ IF tau + 1 < max_lag(params)
     THEN IF tau + 1 >= half_buffer(samples)
          THEN /\ pc' = "panic"
               /\ UNCHANGED <<tau, examined>>
          ELSE /\ examined' = examined \cup {tau + 1}
               /\ IF cmnd(samples, tau + 1) < cmnd(samples, tau)
                  THEN /\ tau' = tau + 1
                       /\ UNCHANGED pc
                  ELSE /\ pc' = "yin_check"
                       /\ UNCHANGED tau
     ELSE /\ pc' = "yin_check"
          /\ UNCHANGED <<tau, examined>>
  /\ UNCHANGED <<synth_vars, call_vars>>
  /\ UNCHANGED <<samples, params, rms, better_tau, result, flux, energy, i, onsets,
                 segments, results>>

\* wrong variant of the end of the call: the no-pitch test does not look at
\* the end of the lag range
YinFinishIgnoresRange ==
  /\ pc = "yin_check"
  /\ IF tau >= half_buffer(samples)
     THEN /\ pc' = "panic"
          /\ UNCHANGED <<result, better_tau>>
     ELSE IF cmnd(samples, tau) >= params.threshold
     THEN /\ pc' = "yin_done"
          /\ result' = None
          /\ UNCHANGED better_tau
     ELSE LET bt == interpolate(samples, tau)
          IN /\ better_tau' = bt
             /\ result' = Some(PitchResultOf(samples, params, tau, bt, rms))
             /\ pc' = "yin_done"
  /\ UNCHANGED <<synth_vars, call_vars>>
  /\ UNCHANGED <<samples, params, tau, rms, examined, flux, energy, i, onsets,
                 segments, results>>
\* lines 122-156: the no-pitch test, interpolation and the result
YinFinish ==
  /\ pc = "yin_check"
  /\ IF tau >= max_lag(params)
     THEN /\ pc' = "yin_done"
          /\ result' = None
          /\ UNCHANGED better_tau
     ELSE IF tau >= half_buffer(samples)
     THEN /\ pc' = "panic"
          /\ UNCHANGED <<result, better_tau>>
     ELSE IF cmnd(samples, tau) >= params.threshold
     THEN /\ pc' = "yin_done"
          /\ result' = None
          /\ UNCHANGED better_tau
     ELSE LET bt == interpolate(samples, tau)
          IN /\ better_tau' = bt
             /\ result' = Some(PitchResultOf(samples, params, tau, bt, rms))
             /\ pc' = "yin_done"
  /\ UNCHANGED <<synth_vars, call_vars>>
  /\ UNCHANGED <<samples, params, tau, rms, examined, flux, energy, i, onsets,
                 segments, results>>

-----------------------------------------------------------------------------
(* detect_onsets *)

\* element idx (from 0) of a Vec
At(seq, idx) == seq[idx + 1]

\* hann_window: 0.5 * (1 - cos(2 pi n / (size - 1))), exact for the sizes modelled
hann_window(size) == IF size = 2 THEN <<0, 0>> ELSE <<0, 1, 0>>

\* the norms of the bins 0..N/2 of the forward real FFT of x (N = 2 or 3)
fft_magnitudes(x) ==
  IF Len(x) = 2
  THEN <<Abs(x[1] + x[2]), Abs(x[1] - x[2])>>
  ELSE <<Abs(x[1] + x[2] + x[3]),
         ISqrt(x[1] * x[1] + x[2] * x[2] + x[3] * x[3]
               - x[1] * x[2] - x[2] * x[3] - x[1] * x[3])>>

\* compute_stft (hop_size > 0): the magnitude spectrum of every windowed frame
compute_stft(s, fft_size, hop_size) ==
  LET num_frames == (SaturatingSub(s.len, fft_size) \div hop_size) + 1
      window == hann_window(fft_size)
      kept == {f \in 0..(num_frames - 1) :
                 \A g \in 0..f : g * hop_size + fft_size <= s.len}
      windowed(f) == [n \in 1..fft_size |->
                        SampleAt(s, f * hop_size + n - 1) * window[n]]
  IN [f \in 1..Cardinality(kept) |-> fft_magnitudes(windowed(f - 1))]

\* sum over the bins of the positive magnitude increases from prev to curr
RECURSIVE rectified_sum(_, _, _)
rectified_sum(curr, prev, k) ==
  IF k = 0 THEN 0
  ELSE rectified_sum(curr, prev, k - 1)
       + (IF curr[k] - prev[k] > 0 THEN curr[k] - prev[k] ELSE 0)

\* spectral_flux: flux[i - 1] compares frame i with frame i - 1
spectral_flux(frames) ==
  IF Len(frames) < 2 THEN <<>>
  ELSE [k \in 1..(Len(frames) - 1) |->
          rectified_sum(frames[k + 1], frames[k], Len(frames[k + 1]))]

\* energy_envelope (hop_size > 0): rms of every hop, in 1/10000
energy_envelope(s, hop_size) ==
  [f \in 1..(s.len \div hop_size) |->
     LET start == (f - 1) * hop_size
         end == Min(start + hop_size, s.len)
     IN ISqrt((SumSquares(s, start, end - 1) * 10000) \div (end - start))]

window_size == 10

RECURSIVE fold_max(_, _, _)
fold_max(f, lo, hi) ==
  IF lo >= hi THEN 0 ELSE Max(fold_max(f, lo, hi - 1), At(f, hi - 1))

\* calculate_onset_confidence, in 1/1000
calculate_onset_confidence(value, f, index) ==
  LET start == SaturatingSub(index, window_size)
      end == Min(index + window_size, Len(f))
      local_max == fold_max(f, start, end)
  IN IF local_max > 0 THEN Min(RoundDiv(value * 1000, local_max), 1000) ELSE 0

\* wrong variant: the time of a frame of fft_size samples
frame_time(p) == (p.fft_size * 1000) \div p.sample_rate
\* hop_size as f64 / sample_rate as f64, in 1/1000 s
hop_time(p) == (p.hop_size * 1000) \div p.sample_rate

\* wrong variant of the peak test: the end of a rising plateau counts as a peak
plateau_end_is_peak(f, idx) == At(f, idx) >= At(f, idx - 1) /\ At(f, idx) > At(f, idx + 1)
\* line 378: strict local maximum of the flux
is_local_max(f, idx) == At(f, idx) > At(f, idx - 1) /\ At(f, idx) > At(f, idx + 1)
\* line 380
above_threshold(f, idx, p) == At(f, idx) > p.threshold
\* line 382
above_energy(e, idx, p) == idx < Len(e) /\ At(e, idx) > p.energy_threshold
\* wrong variant of the interval test: every candidate passes
no_min_interval(os, timestamp, p) == TRUE
\* wrong variant of the interval test: a candidate exactly min_inter_onset
\* after the last onset is rejected
strict_min_interval(os, timestamp, p) ==
  os = <<>> \/ timestamp - os[Len(os)].timestamp > p.min_inter_onset
\* lines 387-388
min_interval_ok(os, timestamp, p) ==
  os = <<>> \/ timestamp - os[Len(os)].timestamp >= p.min_inter_onset

\* upper end of the range 1..flux.len().saturating_sub(1) of line 376
loop_end(f) == SaturatingSub(Len(f), 1)

\* wrong variant of the entry: no length guard before the STFT
OnsetStartUnguarded ==
  /\ pc = "onset_start"
  /\ IF params.hop_size = 0
     THEN /\ pc' = "panic"
          /\ UNCHANGED <<flux, energy, i>>
     ELSE /\ flux' = spectral_flux(compute_stft(samples, params.fft_size, params.hop_size))
          /\ energy' = energy_envelope(samples, params.hop_size)
          /\ i' = 1
          /\ pc' = "onset_loop"
  /\ onsets' = <<>>
  /\ UNCHANGED <<synth_vars, call_vars>>
  /\ UNCHANGED <<samples, params, tau, rms, examined, better_tau, result, segments,
                 results>>
\* wrong variant of the entry: the list of onsets outlives the call
OnsetStartKeepsList ==
  /\ pc = "onset_start"
  /\ IF samples.len < params.fft_size
     THEN /\ pc' = "onset_done"
          /\ UNCHANGED <<flux, energy, i>>
     ELSE IF params.hop_size = 0
     THEN /\ pc' = "panic"
          /\ UNCHANGED <<flux, energy, i>>
     ELSE /\ flux' = spectral_flux(compute_stft(samples, params.fft_size, params.hop_size))
          /\ energy' = energy_envelope(samples, params.hop_size)
          /\ i' = 1
          /\ pc' = "onset_loop"
  /\ UNCHANGED onsets
  /\ UNCHANGED <<synth_vars, call_vars>>
  /\ UNCHANGED <<samples, params, tau, rms, examined, better_tau, result, segments,
                 results>>
\* lines 358-374
OnsetStart ==
  /\ pc = "onset_start"
  /\ IF samples.len < params.fft_size
     THEN /\ pc' = "onset_done"
          /\ UNCHANGED <<flux, energy, i>>
     ELSE IF params.hop_size = 0
     THEN /\ pc' = "panic"
          /\ UNCHANGED <<flux, energy, i>>
     ELSE /\ flux' = spectral_flux(compute_stft(samples, params.fft_size, params.hop_size))
          /\ energy' = energy_envelope(samples, params.hop_size)
          /\ i' = 1
          /\ pc' = "onset_loop"
  /\ onsets' = <<>>
  /\ UNCHANGED <<synth_vars, call_vars>>
  /\ UNCHANGED <<samples, params, tau, rms, examined, better_tau, result, segments,
                 results>>

\* wrong variant of the loop: a new onset is put in front of the list
PeakPickNewestFirst ==
  /\ pc = "onset_loop"
  /\ IF i < loop_end(flux)
     THEN IF i - 1 < 0 \/ i + 1 >= Len(flux)
          THEN /\ pc' = "panic"
               /\ UNCHANGED <<i, onsets>>
          ELSE LET timestamp == i * hop_time(params)
                   sample_index == i * params.hop_size
                   emit == /\ is_local_max(flux, i)
                           /\ above_threshold(flux, i, params)
                           /\ above_energy(energy, i, params)
                           /\ min_interval_ok(onsets, timestamp, params)
               IN /\ onsets' =
                       IF emit
                       THEN <<[timestamp |-> timestamp,
                               sample_index |-> sample_index,
                               strength |-> At(flux, i),
                               confidence |->
                                 calculate_onset_confidence(At(flux, i), flux, i)]>>
                              \o onsets
                       ELSE onsets
                  /\ i' = i + 1
                  /\ UNCHANGED pc
     ELSE /\ pc' = "onset_done"
          /\ UNCHANGED <<i, onsets>>
  /\ UNCHANGED <<synth_vars, call_vars>>
  /\ UNCHANGED <<samples, params, tau, rms, examined, better_tau, result, flux,
                 energy, segments, results>>
\* lines 376-400: one iteration of the peak-picking loop (then line 402)
PeakPick ==
  /\ pc = "onset_loop"
  /\ IF i < loop_end(flux)
     THEN IF i - 1 < 0 \/ i + 1 >= Len(flux)
          THEN /\ pc' = "panic"
               /\ UNCHANGED <<i, onsets>>
          ELSE LET timestamp == i * hop_time(params)
                   sample_index == i * params.hop_size
                   emit == /\ is_local_max(flux, i)
                           /\ above_threshold(flux, i, params)
                           /\ above_energy(energy, i, params)
                           /\ min_interval_ok(onsets, timestamp, params)
               IN /\ onsets' =
                       IF emit
                       THEN Append(onsets,
                              [timestamp |-> timestamp,
                               sample_index |-> sample_index,
                               strength |-> At(flux, i),
                               confidence |->
                                 calculate_onset_confidence(At(flux, i), flux, i)])
                       ELSE onsets
                  /\ i' = i + 1
                  /\ UNCHANGED pc
     ELSE /\ pc' = "onset_done"
          /\ UNCHANGED <<i, onsets>>
  /\ UNCHANGED <<synth_vars, call_vars>>
  /\ UNCHANGED <<samples, params, tau, rms, examined, better_tau, result, flux,
                 energy, segments, results>>

-----------------------------------------------------------------------------
(* analyze_dynamics *)

\* find_peak of the slice s[lo..hi): the largest |sample|, in 1/100
RECURSIVE find_peak(_, _, _)
find_peak(s, lo, hi) ==
  IF hi <= lo THEN 0
  ELSE IF hi = lo + 1 THEN Abs(SampleAt(s, lo))
  ELSE LET mid == (lo + hi) \div 2
       IN Max(find_peak(s, lo, mid), find_peak(s, mid, hi))

\* wrong variant: the silence floor is 0 dB
silence_at_full_scale(amplitude) ==
  IF amplitude < 1 THEN 0
  ELSE RoundDiv(Log2Fix(amplitude, 10000) * 6021, 10240)
\* amplitude_to_db of an amplitude in 1/10000, in 1/100 dB:
\* -60 below 1e-6 (of the amplitudes on the 1/10000 grid: for 0), else
\* 20 * log10(amplitude) = 6.0206 * log2(amplitude)
amplitude_to_db(amplitude) ==
  IF amplitude < 1 THEN -6000
  ELSE RoundDiv(Log2Fix(amplitude, 10000) * 6021, 10240)

\* wrong variant: no clamp, the scaled value is cut to the 8 bits of a u8
unclamped_velocity(db) == (((db + 6000) * 127) \div 6000) % 256
\* db_to_velocity: (((db + 60) / 60).clamp(0, 1) * 127) as u8
db_to_velocity(db) == (Max(0, Min(6000, db + 6000)) * 127) \div 6000

\* wrong variant of the event: the timestamp is recomputed from sample_index
\* and sample_rate
event_by_sample_rate(s, o, start, end) ==
  LET level == calculate_rms(s, start, end)
      db == amplitude_to_db(level)
  IN [timestamp |-> (o.sample_index * 1000) \div params.sample_rate,
      rms_level |-> level,
      peak_level |-> find_peak(s, start, end),
      db_level |-> db,
      midi_velocity |-> db_to_velocity(db)]
\* the DynamicsEvent of the segment audio[start..end) of onset o
dynamics_event(s, o, start, end) ==
  LET level == calculate_rms(s, start, end)
      db == amplitude_to_db(level)
  IN [timestamp |-> o.timestamp,
      rms_level |-> level,
      peak_level |-> find_peak(s, start, end),
      db_level |-> db,
      midi_velocity |-> db_to_velocity(db)]

\* lines 641-646: the bounds of segment idx (from 0)
segment_start(os, idx) == At(os, idx).sample_index

\* wrong variant of the segment end: every segment runs to the buffer end
segment_to_buffer_end(s, os, idx) == s.len
segment_end(s, os, idx) ==
  IF idx + 1 < Len(os) THEN At(os, idx + 1).sample_index ELSE s.len

\* lines 639-665: one iteration of the loop over the onsets (then the return)
DynamicsStep ==
  /\ pc = "dyn_loop"
  /\ IF i < Len(onsets)
     THEN LET start == segment_start(onsets, i)
              end == segment_end(samples, onsets, i)
          IN IF start > end \/ end > samples.len
             THEN /\ pc' = "panic"
                  /\ UNCHANGED <<i, segments, results>>
             ELSE /\ segments' = Append(segments, <<start, end>>)
                  /\ results' = Append(results,
                                   dynamics_event(samples, At(onsets, i), start, end))
                  /\ i' = i + 1
                  /\ UNCHANGED pc
     ELSE /\ pc' = "dyn_done"
          /\ UNCHANGED <<i, segments, results>>
  /\ UNCHANGED <<synth_vars, call_vars>>
  /\ UNCHANGED <<samples, params, tau, rms, examined, better_tau, result, flux,
                 energy, onsets>>

-----------------------------------------------------------------------------
(* synthesize_midi: MidiSynthesizer::synthesize_file, the effects, the WAV file *)

\* times are in 1/1000 s, lengths in f32 values, sample rates in Hz; a time
\* is an f64 that can be NaN or infinite

\* synthesizer.rs line 58: microseconds per beat
DefaultTempo == 500000

\* synthesizer.rs lines 70-71: (current_tick * tempo) / (ticks_per_beat *
\* 1_000_000.0); 0.0 / 0.0 is NaN, x / 0.0 is infinite
time_seconds(tick, ticks_per_beat) ==
  IF ticks_per_beat = 0
  THEN (IF tick = 0 THEN FNaN ELSE FInf(1))
  ELSE FNum((tick * DefaultTempo) \div (ticks_per_beat * 1000))

\* synthesizer.rs lines 59-81: the channel messages with their times, in file
\* order (no tempo change in the file)
collect(file) ==
  [k \in 1..Len(file.messages) |->
     [time |-> time_seconds(file.messages[k].tick, file.ticks_per_beat),
      key |-> file.messages[k].key]]

\* a.0.partial_cmp(&b.0) is None: unwrap panics. A sort of two or more values
\* compares each of them at least once.
sort_panics(es) == Len(es) >= 2 /\ \E k \in 1..Len(es) : es[k].time.k = "nan"

\* a <= b for two times that are not NaN
time_le(a, b) ==
  IF b.k = "inf" THEN TRUE ELSE IF a.k = "inf" THEN FALSE ELSE a.v <= b.v

\* sort_by of synthesizer.rs line 84: a stable sort by time
InsertByTime(e, es) ==
  LET before == SelectSeq(es, LAMBDA x : time_le(x.time, e.time))
      after == SelectSeq(es, LAMBDA x : ~time_le(x.time, e.time))
  IN before \o <<e>> \o after

RECURSIVE SortByTime(_)
SortByTime(es) ==
  IF Len(es) < 2 THEN es
  ELSE InsertByTime(es[Len(es)], SortByTime(SubSeq(es, 1, Len(es) - 1)))

\* synthesizer.rs lines 87-89: the last event plus 1 second of padding
total_duration(es) ==
  IF es = <<>> THEN FNum(1000)
  ELSE LET last == es[Len(es)].time
       IN IF last.k = "num" THEN FNum(last.v + 1000) ELSE last

\* synthesizer.rs line 91: (total_duration * sample_rate) as usize, for a
\* duration that is not infinite; NaN as usize is 0
frames_of(d, sample_rate) ==
  IF d.k = "nan" THEN 0 ELSE (d.v * sample_rate) \div 1000

\* synthesizer.rs line 111: event_time >= chunk_end / sample_rate
at_or_after(time, chunk_end, sample_rate) ==
  IF time.k = "nan" THEN FALSE
  ELSE IF time.k = "inf" THEN TRUE
  ELSE time.v * sample_rate >= chunk_end * 1000

\* synthesizer.rs lines 108-118: the index the inner while stops at
RECURSIVE events_until(_, _, _, _)
events_until(es, idx, chunk_end, sample_rate) ==
  IF idx < Len(es) /\ ~at_or_after(At(es, idx).time, chunk_end, sample_rate)
  THEN events_until(es, idx + 1, chunk_end, sample_rate)
  ELSE idx

\* lib.rs line 77: processed_samples.len() as f64 / sample_rate as f64
duration_of(len, sample_rate) == (len * 1000) \div sample_rate

\* synthesizer.rs lines 42-100: read and parse the file, collect and sort the
\* events, size the two channel buffers (a Vec of usize::MAX values cannot be
\* allocated: vec! panics)
SynthesizeFile ==
  /\ pc = "synth_start"
  /\ \E parsed \in BOOLEAN :
       IF ~parsed
       THEN /\ pc' = "synth_error"
            /\ UNCHANGED <<events, total_samples, current_sample, event_index>>
       ELSE IF sort_panics(collect(midi))
       THEN /\ pc' = "panic"
            /\ events' = collect(midi)
            /\ UNCHANGED <<total_samples, current_sample, event_index>>
       ELSE LET sorted == SortByTime(collect(midi))
                d == total_duration(sorted)
            IN /\ events' = sorted
               /\ IF d.k = "inf"
                  THEN /\ pc' = "panic"
                       /\ UNCHANGED <<total_samples, current_sample, event_index>>
                  ELSE /\ total_samples' = frames_of(d, params.sample_rate)
                       /\ current_sample' = 0
                       /\ event_index' = 0
                       /\ pc' = "synth_chunks"
  /\ UNCHANGED <<midi, dispatched, rendered, audio_samples, processed_samples, duration,
                 gpu, reverb_path>>
  /\ UNCHANGED <<params, analysis_vars, call_vars>>

\* synthesizer.rs lines 102-128: one 1-second chunk; lines 130-137 once the loop
\* has ended
RenderChunk ==
  /\ pc = "synth_chunks"
  /\ IF current_sample < total_samples
     THEN LET chunk_size == params.sample_rate
              chunk_end == Min(current_sample + chunk_size, total_samples)
              stop == events_until(events, event_index, chunk_end, params.sample_rate)
              chunk_len == chunk_end - current_sample
          IN /\ dispatched' = dispatched \o SubSeq(events, event_index + 1, stop)
             /\ event_index' = stop
             /\ rendered' = rendered + chunk_len
             /\ current_sample' = chunk_end
             /\ UNCHANGED <<pc, audio_samples>>
     ELSE /\ audio_samples' = 2 * total_samples
          /\ pc' = "synth_effects"
          /\ UNCHANGED <<dispatched, event_index, rendered, current_sample>>
  /\ UNCHANGED <<midi, events, total_samples, processed_samples, duration, gpu,
                 reverb_path>>
  /\ UNCHANGED <<params, analysis_vars, call_vars>>

\* what the GPU can do in a call: work, be absent (metal_effects.rs lines
\* 24-25), refuse the shader (line 40), or fail a run it was given
GpuOutcomes == {"ok", "no_device", "no_shader", "run_fails"}

\* MetalEffectsProcessor::new, metal_effects.rs lines 22-43: the pipeline it
\* holds (compile_reverb_shader sets Some or returns the error), or the error
new_processor(outcome) ==
  IF outcome = "no_device" THEN [tag |-> "Err", error |-> "No Metal device found"]
  ELSE IF outcome = "no_shader"
  THEN [tag |-> "Err", error |-> "Failed to compile Metal shader"]
  ELSE [tag |-> "Ok", reverb_pipeline |-> Some("convolve_reverb")]

\* apply_reverb_gpu_impl, metal_effects.rs lines 72-138: it returns Ok with a
\* buffer of the input's length whatever the command buffer did
apply_reverb_gpu_impl(len, outcome) == [tag |-> "Ok", len |-> len, by |-> "gpu"]

\* apply_reverb_cpu, metal_effects.rs lines 141-187
apply_reverb_cpu(len) == [tag |-> "Ok", len |-> len, by |-> "cpu"]

\* apply_reverb_gpu, metal_effects.rs lines 57-69
apply_reverb_gpu(processor, len, outcome) ==
  IF processor.reverb_pipeline # None
  THEN LET run == apply_reverb_gpu_impl(len, outcome)
       IN IF run.tag = "Ok" THEN run ELSE apply_reverb_cpu(len)
  ELSE apply_reverb_cpu(len)

\* MetalEffectsProcessor::process, metal_effects.rs lines 46-54
process(processor, len, enable_reverb, outcome) ==
  IF ~enable_reverb THEN [tag |-> "Ok", len |-> len, by |-> "copy"]
  ELSE apply_reverb_gpu(processor, len, outcome)

\* lib.rs lines 68-74: the effects, with the processor built for this call
ApplyEffects ==
  /\ pc = "synth_effects"
  /\ IF params.use_gpu
     THEN \E outcome \in GpuOutcomes :
            LET effects == new_processor(outcome)
            IN /\ gpu' = outcome
               /\ IF effects.tag = "Err"
                  THEN /\ pc' = "synth_error"
                       /\ UNCHANGED <<processed_samples, reverb_path>>
                  ELSE LET out == process(effects, audio_samples, params.reverb, outcome)
                       IN /\ processed_samples' = out.len
                          /\ reverb_path' = out.by
                          /\ pc' = "synth_write"
     ELSE /\ processed_samples' = audio_samples
          /\ pc' = "synth_write"
          /\ UNCHANGED <<gpu, reverb_path>>
  /\ UNCHANGED <<midi, events, total_samples, current_sample, event_index, dispatched,
                 rendered, audio_samples, duration>>
  /\ UNCHANGED <<params, analysis_vars, call_vars>>

\* lib.rs lines 76-80: the duration, then the WAV file
WriteWav ==
  /\ pc = "synth_write"
  /\ duration' = duration_of(processed_samples, params.sample_rate)
  /\ \E written \in BOOLEAN : pc' = IF written THEN "synth_done" ELSE "synth_error"
  /\ UNCHANGED <<midi, events, total_samples, current_sample, event_index, dispatched,
                 rendered, audio_samples, processed_samples, gpu, reverb_path>>
  /\ UNCHANGED <<params, analysis_vars, call_vars>>

\* no synthesis in progress
SynthIdle ==
  /\ midi = [ticks_per_beat |-> 0, messages |-> <<>>]
  /\ events = <<>>
  /\ total_samples = 0
  /\ current_sample = 0
  /\ event_index = 0
  /\ dispatched = <<>>
  /\ rendered = 0
  /\ audio_samples = 0
  /\ processed_samples = 0
  /\ duration = 0
  /\ gpu = "unused"
  /\ reverb_path = "none"

-----------------------------------------------------------------------------
(* A call and the calls after it on the same arguments *)

MaxCalls == 2

FirstCall ==
  /\ previous = None
  /\ calls = 1

DonePcs == {"yin_done", "onset_done", "dyn_done"}

\* what the call hands back: Option<PitchResult>, Vec<OnsetEvent>, Vec<DynamicsEvent>
Outcome ==
  IF pc = "yin_done" THEN result ELSE IF pc = "onset_done" THEN onsets ELSE results

\* the caller keeps the returned value and calls the same function again with
\* the same buffer and configuration; detect_pitch_yin and detect_onsets set
\* up their locals themselves, analyze_dynamics is entered at its loop
\* (analyzer.rs lines 637-639)
CallAgain ==
  /\ pc \in DonePcs
  /\ calls < MaxCalls
  /\ previous' = Outcome
  /\ calls' = calls + 1
  /\ IF pc = "dyn_done"
     THEN /\ pc' = "dyn_loop"
          /\ i' = 0
          /\ segments' = <<>>
          /\ results' = <<>>
     ELSE /\ pc' = (IF pc = "yin_done" THEN "yin_start" ELSE "onset_start")
          /\ UNCHANGED <<i, segments, results>>
  /\ UNCHANGED <<samples, params, tau, rms, examined, better_tau, result, flux, energy,
                 onsets>>
  /\ UNCHANGED synth_vars

-----------------------------------------------------------------------------
(* The calls to detect_pitch_yin that are explored *)

\* largest sample value of a pitch buffer, in 1/100
MaxSample == 2

PitchPatterns ==
  {<<a, a, b, b>> : a \in 0..MaxSample, b \in 0..MaxSample}
    \cup {<<a, b, a, b>> : a \in 0..MaxSample, b \in 0..MaxSample}

PitchLens == {100, 2047, 2048}

\* a buffer longer than the analysis window, explored with the configs whose
\* max_lag lies between half the window and half the buffer
LongLens == {16384}

YinConfigs ==
  [threshold : {100, 1000},
   min_frequency : {1, 1056, 1320, 1500},
   max_frequency : {1760, 2000, 2640},
   sample_rate : {5280}]

LongConfigs == {c \in YinConfigs : c.min_frequency = 1}

\* a buffer of zeros but for a short burst that starts at sample 100
Bursts == {<<-100, 50, 0, -50, 50, -50>>, <<100, 50, 0, -50, -100, -50>>}

BurstBuffer(burst) ==
  [pat |-> [j \in 1..2048 |->
              IF j - 100 \in 1..Len(burst) THEN burst[j - 100] ELSE 0],
   len |-> 2048]

BurstConfigs ==
  [threshold : {100, 1000},
   min_frequency : {1760},
   max_frequency : {2640},
   sample_rate : {5280}]

\* a threshold above 1, with the lag range [2, 3)
ClampConfigs ==
  [threshold : {1500},
   min_frequency : {1500},
   max_frequency : {2000},
   sample_rate : {5280}]

PitchCalls ==
  ([pat : PitchPatterns, len : PitchLens] \X YinConfigs)
    \cup ([pat : PitchPatterns, len : {MinBufferLen}] \X ClampConfigs)
    \cup ([pat : PitchPatterns, len : LongLens] \X LongConfigs)
    \cup ({BurstBuffer(b) : b \in Bursts} \X BurstConfigs)

InitPitch ==
  /\ \E call \in PitchCalls :
       /\ samples = call[1]
       /\ params = call[2]
  /\ pc = "yin_start"
  /\ tau = 0
  /\ rms = 0
  /\ examined = {}
  /\ better_tau = FNum(0)
  /\ result = None
  /\ flux = <<>>
  /\ energy = <<>>
  /\ i = 0
  /\ onsets = <<>>
  /\ segments = <<>>
  /\ results = <<>>
  /\ SynthIdle
  /\ FirstCall

NextPitch == YinGuards \/ ThresholdSearch \/ Descend \/ YinFinish

SpecPitch == InitPitch /\ [][NextPitch]_vars


-----------------------------------------------------------------------------
(* The calls to detect_onsets that are explored *)

\* longest buffer, and longest buffer that uses the levels between 0 and 90
MaxLen == 10
MaxSoftLen == 6

Levels == {0, 30, 60, 90}
LoudLevels == {0, 90}

OnsetBuffers ==
  UNION {[pat : [1..n -> IF n <= MaxSoftLen THEN Levels ELSE LoudLevels], len : {n}] :
           n \in 0..MaxLen}

OnsetConfigs ==
  [hop_size : {0, 1, 2},
   fft_size : {3},
   threshold : {30, 150},
   min_inter_onset : {0, 3},
   energy_threshold : {100},
   sample_rate : {1000}]

\* 15 samples, all zero but samples 1, 3 and 13: flux has 12 values, a
\* possible peak at index 1 and a possible larger value at index 11
WideBuffers ==
  {[pat |-> [j \in 1..15 |->
               IF j = 2 THEN a ELSE IF j = 4 THEN b ELSE IF j = 14 THEN c ELSE 0],
    len |-> 15] : a \in {0, 30}, b \in {0, 30, 60}, c \in {0, 90}}

InitOnset ==
  /\ samples \in OnsetBuffers \cup WideBuffers
  /\ params \in OnsetConfigs
  /\ pc = "onset_start"
  /\ tau = 0
  /\ rms = 0
  /\ examined = {}
  /\ better_tau = FNum(0)
  /\ result = None
  /\ flux = <<>>
  /\ energy = <<>>
  /\ i = 0
  /\ onsets = <<>>
  /\ segments = <<>>
  /\ results = <<>>
  /\ SynthIdle
  /\ FirstCall

NextOnset == OnsetStart \/ PeakPick

SpecOnset == InitOnset /\ [][NextOnset]_vars

-----------------------------------------------------------------------------
(* The calls to analyze_dynamics that are explored *)

MaxAudioLen == 3
MaxOnsets == 2

DynBuffers == UNION {[pat : [1..n -> LoudLevels], len : {n}] : n \in 0..MaxAudioLen}

\* caller-built events: any sample_index, a timestamp that agrees with it at
\* 1000 Hz or is one off
DynEvents ==
  {[timestamp |-> x + d, sample_index |-> x, strength |-> 100, confidence |-> 1000] :
     x \in 0..(MaxAudioLen + 1), d \in {0, 1}}

DynOnsets == UNION {[1..n -> DynEvents] : n \in 0..MaxOnsets}

\* the event of a caller that detected an onset at sample x of a 1000 Hz buffer
OnsetAt(x) ==
  [timestamp |-> x, sample_index |-> x, strength |-> 100, confidence |-> 1000]

\* three notes of one sample each, at constant levels from silence to above
\* full scale
StairLevels == {0, 10, 50, 90, 100, 150}

StairCalls ==
  [pat : [1..3 -> StairLevels], len : {3}] \X {<<OnsetAt(0), OnsetAt(1), OnsetAt(2)>>}

\* a note of n - 1 samples that is silent but for its first sample (0.01),
\* followed or not by a one-sample note
QuietLens == {400, 2500}

QuietBuffer(n, last) ==
  [pat |-> [j \in 1..n |-> IF j = 1 THEN 1 ELSE IF j = n THEN last ELSE 0],
   len |-> n]

QuietCalls ==
  UNION {{QuietBuffer(n, last) : last \in {0, 150}}
           \X {<<OnsetAt(0)>>, <<OnsetAt(0), OnsetAt(n - 1)>>} : n \in QuietLens}

DynCalls == (DynBuffers \X DynOnsets) \cup StairCalls \cup QuietCalls

InitDyn ==
  /\ \E call \in DynCalls :
       /\ samples = call[1]
       /\ onsets = call[2]
  /\ params \in [sample_rate : {500, 1000}]
  /\ pc = "dyn_loop"
  /\ tau = 0
  /\ rms = 0
  /\ examined = {}
  /\ better_tau = FNum(0)
  /\ result = None
  /\ flux = <<>>
  /\ energy = <<>>
  /\ i = 0
  /\ segments = <<>>
  /\ results = <<>>
  /\ SynthIdle
  /\ FirstCall

NextDyn == DynamicsStep

SpecDyn == InitDyn /\ [][NextDyn]_vars

-----------------------------------------------------------------------------
(* The calls to synthesize_midi that are explored *)

MaxEvents == 2

\* absolute ticks of the messages; at 500 ticks per beat a tick is 1/1000 s
EventTicks == {0, 250, 999, 1000, 2400}

MidiEvents == [tick : EventTicks, key : {60, 64}]

\* the header's ticks per beat (a u15: 0 is a value) and the messages of the
\* tracks, track after track
MidiFiles ==
  [ticks_per_beat : {0, 500},
   messages : UNION {[1..n -> MidiEvents] : n \in 0..MaxEvents}]

SynthConfigs == [sample_rate : {16000, 44100}, use_gpu : BOOLEAN, reverb : BOOLEAN]

InitSynth ==
  /\ midi \in MidiFiles
  /\ events = <<>>
  /\ params \in SynthConfigs
  /\ pc = "synth_start"
  /\ samples = [pat |-> <<>>, len |-> 0]
  /\ tau = 0
  /\ rms = 0
  /\ examined = {}
  /\ better_tau = FNum(0)
  /\ result = None
  /\ flux = <<>>
  /\ energy = <<>>
  /\ i = 0
  /\ onsets = <<>>
  /\ segments = <<>>
  /\ results = <<>>
  /\ total_samples = 0
  /\ current_sample = 0
  /\ event_index = 0
  /\ dispatched = <<>>
  /\ rendered = 0
  /\ audio_samples = 0
  /\ processed_samples = 0
  /\ duration = 0
  /\ gpu = "unused"
  /\ reverb_path = "none"
  /\ FirstCall

NextSynth == SynthesizeFile \/ RenderChunk \/ ApplyEffects \/ WriteWav

SpecSynth == InitSynth /\ [][NextSynth]_vars

-----------------------------------------------------------------------------
(* Every call *)

Init == InitPitch \/ InitOnset \/ InitDyn

Next == NextPitch \/ NextOnset \/ NextDyn

Spec == Init /\ [][Next]_vars

\* the caller hands the buffer and the onsets detect_onsets returned to
\* analyze_dynamics (entered at its loop, analyzer.rs lines 632-639)
AnalyzeDetected ==
  /\ pc = "onset_done"
  /\ pc' = "dyn_loop"
  /\ i' = 0
  /\ segments' = <<>>
  /\ results' = <<>>
  /\ UNCHANGED <<samples, params, tau, rms, examined, better_tau, result, flux, energy,
                 onsets>>
  /\ UNCHANGED <<synth_vars, call_vars>>

NextPipeline == NextOnset \/ AnalyzeDetected \/ NextDyn

\* detect_onsets, then analyze_dynamics on what it returned
SpecPipeline == InitOnset /\ [][NextPipeline]_vars

\* every analysis call, made MaxCalls times over
NextRepeat == Next \/ CallAgain

SpecRepeat == Init /\ [][NextRepeat]_vars

-----------------------------------------------------------------------------
(* Properties of detect_pitch_yin *)

\* C5: detect_pitch_yin returns None, without examining any lag, for every
\* buffer of fewer than 2048 samples and for every buffer whose rms is below
\* 0.01, whatever the configuration.
C5_ShortOrSilentIsAbsent ==
  (pc # "yin_start" /\ (samples.len < MinBufferLen \/ rms < SilenceRms))
    => (pc = "yin_done" /\ result = None /\ examined = {})

\* a buffer that is long enough and not all zero, but quieter than 0.01
C5_QuietBufferRejected ==
  /\ pc = "yin_done"
  /\ samples.len >= MinBufferLen
  /\ rms > 0
  /\ rms < SilenceRms
  /\ result = None

\* C6: detect_pitch_yin returns None whenever max_lag >= half_buffer, where
\* half_buffer = min(len, 8192) / 2; when a result is produced every lag the
\* search examined, and the lag it chose, is below max_lag, which is below
\* half_buffer.
C6_LagWindow ==
  LET halfBuffer == Min(samples.len, MaxWindow) \div 2
      maxLag == params.sample_rate \div params.min_frequency
  IN /\ (pc # "yin_start" /\ maxLag >= halfBuffer)
          => (pc = "yin_done" /\ result = None /\ examined = {})
     /\ result # None
          => \A t \in examined \cup {tau} : t < maxLag /\ maxLag < halfBuffer

\* a loud buffer longer than the window, rejected for a max_lag that half the
\* buffer would hold but half the window does not
C6_CappedWindowRejects ==
  /\ pc = "yin_done"
  /\ samples.len > MaxWindow
  /\ rms >= SilenceRms
  /\ max_lag(params) >= MaxWindow \div 2
  /\ max_lag(params) < samples.len \div 2
  /\ result = None

\* C7: every result detect_pitch_yin returns is fully valid: midi_note is in
\* 21..108, rms_level is the rms of the whole buffer and at least 0.01, and
\* frequency and cents_offset are defined numbers.
C7_ResultFullyValid ==
  result # None
    => /\ result.value.midi_note \in 21..108
       /\ result.value.rms_level = rms
       /\ result.value.rms_level >= SilenceRms
       /\ result.value.frequency.k = "num"
       /\ result.value.cents_offset.k = "num"

\* C8: whenever detect_pitch_yin returns a result the interpolated lag is a
\* defined number (the interpolation did not divide by zero) and strictly
\* positive, and so is the reported frequency.
C8_LagPositive ==
  result # None
    => /\ better_tau.k = "num"
       /\ better_tau.v > 0
       /\ result.value.frequency.k = "num"
       /\ result.value.frequency.v > 0

\* C21: detect_pitch_yin computes its lag bounds by rounding to the nearest
\* integer: the search starts at min_lag = round(sample_rate / max_frequency)
\* and ends before max_lag = round(sample_rate / min_frequency).
C21_LagsRounded ==
  (pc = "yin_search" /\ examined = {})
    => /\ tau = RoundDiv(params.sample_rate, params.max_frequency)
       /\ max_lag(params) = RoundDiv(params.sample_rate, params.min_frequency)

\* C21 (amended): detect_pitch_yin computes its lag bounds by truncating
\* to an integer: the search starts at floor(sample_rate / max_frequency),
\* examines no lag outside [floor(sample_rate / max_frequency),
\* floor(sample_rate / min_frequency)), and a search that finds no lag ends at
\* floor(sample_rate / min_frequency).
C21_LagsTruncated ==
  LET minLag == params.sample_rate \div params.max_frequency
      maxLag == params.sample_rate \div params.min_frequency
  IN /\ (pc = "yin_search" /\ examined = {}) => tau = minLag
     /\ \A t \in examined : minLag <= t /\ t < maxLag
     /\ (pc = "yin_check" /\ tau \notin examined) => tau = Max(minLag, maxLag)

\* a search that ran over the whole lag range without finding a lag, in a call
\* where rounding would give other bounds at both ends
C21_TruncationDiffers ==
  /\ pc = "yin_check"
  /\ tau \notin examined
  /\ examined # {}
  /\ tau # RoundDiv(params.sample_rate, params.min_frequency)
  /\ \A t \in examined : t < RoundDiv(params.sample_rate, params.max_frequency)

\* the length, silence and max_lag guards of lines 65-84 have passed
GuardsPassed ==
  /\ samples.len >= MinBufferLen
  /\ rms >= SilenceRms
  /\ params.sample_rate \div params.min_frequency < Min(samples.len, MaxWindow) \div 2

\* the lags of [min_lag, max_lag) whose cmnd is below the threshold
LagsBelowThreshold ==
  {t \in (params.sample_rate \div params.max_frequency)
           .. (params.sample_rate \div params.min_frequency) - 1 :
     cmnd(samples, t) < params.threshold}

\* C22: once the length, silence and max_lag guards pass, detect_pitch_yin
\* returns a result if and only if some lag in [min_lag, max_lag) has a cmnd
\* below the threshold; with no such lag, and so with an empty lag range, it
\* returns None.
C22_ResultIffLagBelowThreshold ==
  (pc = "yin_done" /\ GuardsPassed) => (result # None <=> LagsBelowThreshold # {})

\* a result whose lag was found after lags that are not below the threshold
C22_FoundAfterMisses ==
  /\ pc = "yin_done"
  /\ GuardsPassed
  /\ result # None
  /\ \E t \in examined : cmnd(samples, t) >= params.threshold

\* the first lag of [min_lag, max_lag) whose cmnd is below the threshold
FirstLagBelowThreshold ==
  CHOOSE t \in LagsBelowThreshold : \A u \in LagsBelowThreshold : t <= u

\* C23: the lag detect_pitch_yin chooses is the local minimum reached from the
\* first lag tau0 >= min_lag with cmnd[tau0] < threshold: cmnd decreases
\* strictly from tau0 to tau, cmnd[tau] < threshold and cmnd[tau + 1] >=
\* cmnd[tau].
C23_LocalMinimum ==
  (pc = "yin_done" /\ result # None)
    => LET tau0 == FirstLagBelowThreshold
       IN /\ tau0 <= tau
          /\ \A t \in tau0..(tau - 1) : cmnd(samples, t + 1) < cmnd(samples, t)
          /\ cmnd(samples, tau) < params.threshold
          /\ cmnd(samples, tau + 1) >= cmnd(samples, tau)

\* C23 (amended): as C23, but the descent also ends at the end of the lag
\* range: tau < max_lag, and cmnd[tau + 1] >= cmnd[tau] unless tau + 1 =
\* max_lag.
C23_LocalMinimumInRange ==
  (pc = "yin_done" /\ result # None)
    => LET tau0 == FirstLagBelowThreshold
           maxLag == params.sample_rate \div params.min_frequency
       IN /\ tau0 <= tau
          /\ tau < maxLag
          /\ \A t \in tau0..(tau - 1) : cmnd(samples, t + 1) < cmnd(samples, t)
          /\ cmnd(samples, tau) < params.threshold
          /\ tau + 1 = maxLag \/ cmnd(samples, tau + 1) >= cmnd(samples, tau)

\* a result whose lag lies below the first lag under the threshold: the
\* descent moved
C23_DescentMoved ==
  /\ pc = "yin_done"
  /\ result # None
  /\ tau > FirstLagBelowThreshold

\* C24: whenever detect_pitch_yin returns a result, confidence =
\* 1 - min(cmnd[tau], 1) for the chosen lag tau: it lies in [0, 1] and, for a
\* threshold of at most 1, is strictly greater than 1 - threshold.
C24_ConfidenceFromCmnd ==
  (pc = "yin_done" /\ result # None)
    => LET c == cmnd(samples, tau)
           confidence == result.value.confidence
       IN /\ confidence = 1000 - (IF c < 1000 THEN c ELSE 1000)
          /\ confidence >= 0
          /\ confidence <= 1000
          /\ params.threshold <= 1000 => confidence > 1000 - params.threshold

\* a result whose confidence is neither 0 nor 1, under a threshold of at most 1
C24_PartialConfidence ==
  /\ pc = "yin_done"
  /\ result # None
  /\ params.threshold <= 1000
  /\ result.value.confidence > 0
  /\ result.value.confidence < 1000

-----------------------------------------------------------------------------
(* Properties of detect_onsets *)

\* the flux index an emitted onset was taken from
FluxIndexOf(o) == o.sample_index \div params.hop_size

\* flux index k passes the three tests of lines 378-382
IsCandidate(k) ==
  /\ flux[k + 1] > flux[k]
  /\ flux[k + 1] > flux[k + 2]
  /\ flux[k + 1] > params.threshold
  /\ energy[k + 1] > params.energy_threshold

\* the interior flux indices that passed the tests and were not emitted
RejectedCandidates ==
  {k \in 1..(Len(flux) - 2) :
     /\ k < i
     /\ IsCandidate(k)
     /\ \A n \in 1..Len(onsets) : onsets[n].sample_index # k * params.hop_size}

\* C1: the onset list of detect_onsets has strictly increasing timestamps,
\* and consecutive timestamps are at least min_inter_onset apart.
C1_OnsetsSpaced ==
  \A n \in 1..(Len(onsets) - 1) :
    /\ onsets[n + 1].timestamp > onsets[n].timestamp
    /\ onsets[n + 1].timestamp - onsets[n].timestamp >= params.min_inter_onset

\* two onsets returned, and a candidate too close to an earlier onset dropped
C1_CloseCandidateDropped ==
  /\ pc = "onset_done"
  /\ params.min_inter_onset > 0
  /\ Len(onsets) >= 2
  /\ RejectedCandidates # {}

\* C2: every onset emitted by detect_onsets comes from an interior flux index
\* (1 <= idx < len(flux) - 1) where the flux is strictly above both
\* neighbours and above the threshold and the energy is above the energy
\* threshold; so a plateau index, the first and the last index are never
\* emitted, and an all-zero buffer gives an empty list.
C2_OnsetsAreStrictPeaks ==
  /\ \A n \in 1..Len(onsets) :
       LET idx == FluxIndexOf(onsets[n])
       IN /\ onsets[n].sample_index = idx * params.hop_size
          /\ 1 <= idx
          /\ idx < Len(flux) - 1
          /\ flux[idx + 1] > flux[idx]
          /\ flux[idx + 1] > flux[idx + 2]
          /\ flux[idx + 1] > params.threshold
          /\ energy[idx + 1] > params.energy_threshold
  /\ (\A j \in 1..samples.len : samples.pat[j] = 0) => onsets = <<>>

\* a call that passed over the end of a plateau of the flux that lies above
\* the threshold, at an index where the energy is above its threshold too
C2_PlateauPassedOver ==
  /\ pc = "onset_done"
  /\ \E k \in 1..(Len(flux) - 2) :
       /\ flux[k + 1] = flux[k]
       /\ flux[k + 1] > flux[k + 2]
       /\ flux[k + 1] > params.threshold
       /\ energy[k + 1] > params.energy_threshold
       /\ \A n \in 1..Len(onsets) : FluxIndexOf(onsets[n]) # k

\* C3: in one iteration of the peak-picking loop a candidate is appended iff
\* the list is empty or its time is at least min_inter_onset after the last
\* emitted onset; otherwise (no candidate, or a rejected one) the list, and
\* with it the reference timestamp, is left as it was.
C3_MinInterOnsetFilter ==
  [][(pc = "onset_loop" /\ pc' = "onset_loop")
       => LET t == i * ((params.hop_size * 1000) \div params.sample_rate)
              far == \/ onsets = <<>>
                     \/ t - onsets[Len(onsets)].timestamp >= params.min_inter_onset
          IN IF IsCandidate(i) /\ far
             THEN /\ Len(onsets') = Len(onsets) + 1
                  /\ SubSeq(onsets', 1, Len(onsets)) = onsets
                  /\ onsets'[Len(onsets')].timestamp = t
                  /\ onsets'[Len(onsets')].sample_index = i * params.hop_size
             ELSE onsets' = onsets]_vars

\* a rejected candidate followed by an emitted onset that is closer than
\* min_inter_onset to the rejected one: the rejection moved no reference
C3_RejectedThenEmitted ==
  /\ pc = "onset_done"
  /\ \E k \in RejectedCandidates :
       \E n \in 1..Len(onsets) :
         /\ onsets[n].sample_index > k * params.hop_size
         /\ onsets[n].timestamp - k * hop_time(params) < params.min_inter_onset

\* the largest flux value at the indices lo..hi (0 if there is none)
MaxFluxOver(lo, hi) ==
  IF lo > hi THEN 0
  ELSE LET top == CHOOSE k \in lo..hi : \A n \in lo..hi : flux[k + 1] >= flux[n + 1]
       IN Max(0, flux[top + 1])

\* C15: every OnsetEvent returned by detect_onsets has a strength in
\* [0.0, 1.0].
C15_StrengthInUnitRange ==
  \A n \in 1..Len(onsets) :
    /\ onsets[n].strength >= 0
    /\ onsets[n].strength <= 100

\* C16: the confidence of the onset picked at flux index idx is
\* min(flux[idx] / localMax, 1), localMax being the largest flux value at the
\* indices idx - 10 to idx + 10 inclusive, clipped to the flux sequence, and
\* 0 when localMax is 0; so it is in [0, 1].
C16_ConfidenceOverWindow ==
  \A n \in 1..Len(onsets) :
    LET idx == FluxIndexOf(onsets[n])
        localMax == MaxFluxOver(Max(0, idx - 10), Min(Len(flux) - 1, idx + 10))
    IN /\ onsets[n].confidence >= 0
       /\ onsets[n].confidence <= 1000
       /\ onsets[n].confidence =
            (IF localMax > 0
             THEN Min(RoundDiv(flux[idx + 1] * 1000, localMax), 1000)
             ELSE 0)

\* C17: the sample_index of every OnsetEvent is idx * hop_size for the flux
\* index idx it was picked at, and its timestamp is sample_index /
\* sample_rate; both are >= 0.
C17_IndexMatchesTimestamp ==
  \A n \in 1..Len(onsets) :
    LET idx == FluxIndexOf(onsets[n])
    IN /\ onsets[n].sample_index = idx * params.hop_size
       /\ idx < i
       /\ IsCandidate(idx)
       /\ onsets[n].timestamp * params.sample_rate = onsets[n].sample_index * 1000
       /\ onsets[n].sample_index >= 0
       /\ onsets[n].timestamp >= 0

\* an onset returned by a call with a hop of two samples
C17_OnsetAtHopTwo ==
  /\ pc = "onset_done"
  /\ params.hop_size = 2
  /\ \E n \in 1..Len(onsets) :
       onsets[n].sample_index >= 2 /\ onsets[n].timestamp >= 2

\* C18: detect_onsets returns an empty list, and does not panic, whenever
\* the buffer is shorter than fft_size.
C18_ShortBufferEmpty ==
  samples.len < params.fft_size => (pc # "panic" /\ onsets = <<>>)

\* a non-empty buffer shorter than fft_size, returned from with hop_size = 0
C18_ShortBufferReturned ==
  /\ pc = "onset_done"
  /\ samples.len > 0
  /\ samples.len < params.fft_size
  /\ params.hop_size = 0
  /\ onsets = <<>>

-----------------------------------------------------------------------------
(* Properties of analyze_dynamics *)

\* C9: analyze_dynamics returns one DynamicsEvent per onset, in onset order;
\* event n carries the timestamp of onset n and the levels of segment n, none
\* of which depends on sample_rate.
C9_OneEventPerOnset ==
  /\ Len(results) = (IF pc = "dyn_done" THEN Len(onsets) ELSE Len(segments))
  /\ \A n \in 1..Len(results) :
       /\ results[n].timestamp = onsets[n].timestamp
       /\ results[n].rms_level = calculate_rms(samples, segments[n][1], segments[n][2])
       /\ results[n].peak_level = find_peak(samples, segments[n][1], segments[n][2])

\* two events returned at 500 Hz for onsets whose timestamps are not the
\* times of their sample indices
C9_TwoEventsReturned ==
  /\ pc = "dyn_done"
  /\ params.sample_rate = 500
  /\ Len(results) = 2
  /\ onsets[1].timestamp # (onsets[1].sample_index * 1000) \div params.sample_rate
  /\ onsets[2].timestamp # (onsets[2].sample_index * 1000) \div params.sample_rate

\* C10: segment n of analyze_dynamics is [onset n's sample_index, onset
\* n+1's sample_index), the last one runs to the buffer end; the segments
\* are contiguous and every sample from the first onset to the end of the
\* buffer lies in exactly one of them.
C10_SegmentsPartition ==
  pc = "dyn_done"
    => /\ Len(segments) = Len(onsets)
       /\ \A n \in 1..Len(segments) :
            /\ segments[n][1] = onsets[n].sample_index
            /\ segments[n][2] =
                 (IF n < Len(onsets) THEN onsets[n + 1].sample_index ELSE samples.len)
       /\ \A n \in 1..(Len(segments) - 1) : segments[n][2] = segments[n + 1][1]
       /\ onsets # <<>>
            => \A j \in onsets[1].sample_index..(samples.len - 1) :
                 Cardinality({n \in 1..Len(segments) :
                                segments[n][1] <= j /\ j < segments[n][2]}) = 1

\* two non-empty segments, the second one ending at the buffer end
C10_TwoSegments ==
  /\ pc = "dyn_done"
  /\ Len(segments) = 2
  /\ segments[1][1] < segments[1][2]
  /\ segments[2][1] < segments[2][2]
  /\ segments[2][2] = samples.len

\* the events of segments that hold no sample beyond full scale
NormalizedEvents == {n \in 1..Len(results) : results[n].peak_level <= 100}

\* C11: for every segment of a buffer normalized to [-1, 1] the db_level of
\* its DynamicsEvent lies in [-60, 0]: 20 * log10(rms) floored at -60.
C11_DecibelsInRange ==
  \A n \in NormalizedEvents :
    /\ results[n].db_level >= -6000
    /\ results[n].db_level <= 0

\* C12: midi_velocity is round(clamp((db + 60) / 60, 0, 1) * 127): the scaled
\* value rounded to the nearest integer.
C12_VelocityRounds ==
  \A n \in 1..Len(results) :
    results[n].midi_velocity =
      RoundDiv(Max(0, Min(6000, results[n].db_level + 6000)) * 127, 6000)

\* C13: for every db_level, also outside [-60, 0], midi_velocity is in
\* 0..127; it is 127 for every db >= 0 and 0 for every db <= -60.
C13_VelocityClamped ==
  \A n \in 1..Len(results) :
    /\ results[n].midi_velocity \in 0..127
    /\ results[n].db_level >= 0 => results[n].midi_velocity = 127
    /\ results[n].db_level <= -6000 => results[n].midi_velocity = 0

\* a call that returned a note below -60 dB and a note above 0 dB
C13_BelowAndAboveRange ==
  /\ pc = "dyn_done"
  /\ \E n \in 1..Len(results) :
       results[n].db_level < -6000 /\ results[n].midi_velocity = 0
  /\ \E n \in 1..Len(results) :
       results[n].db_level > 0 /\ results[n].midi_velocity = 127

\* C14: analyze_dynamics preserves the order of loudness: a segment with a
\* strictly smaller rms has a strictly smaller rms_level and a midi_velocity
\* that is not larger; the notes 0.1, 0.5, 0.9 have strictly increasing
\* rms_level and midi_velocity.
C14_LoudnessOrder ==
  /\ \A n, m \in 1..Len(results) :
       calculate_rms(samples, segments[n][1], segments[n][2])
         < calculate_rms(samples, segments[m][1], segments[m][2])
       => /\ results[n].rms_level < results[m].rms_level
          /\ results[n].midi_velocity <= results[m].midi_velocity
  /\ (pc = "dyn_done" /\ samples.pat = <<10, 50, 90>> /\ Len(results) = 3)
       => /\ results[1].rms_level < results[2].rms_level
          /\ results[2].rms_level < results[3].rms_level
          /\ results[1].midi_velocity < results[2].midi_velocity
          /\ results[2].midi_velocity < results[3].midi_velocity

\* the three notes 0.1, 0.5, 0.9 analysed
C14_ThreeNotes ==
  /\ pc = "dyn_done"
  /\ samples.pat = <<10, 50, 90>>
  /\ Len(results) = 3
  /\ results[1].midi_velocity > 0

-----------------------------------------------------------------------------
(* Properties of detect_onsets followed by analyze_dynamics *)

\* C26: with hop_size > 0 the sample_index values of the onsets
\* detect_onsets returns increase strictly and each is below the buffer
\* length; analyze_dynamics on that buffer and those onsets slices within the
\* buffer, without a panic, and every segment it measures has samples.
C26_DetectedOnsetsSliceSafely ==
  params.hop_size > 0
    => /\ pc # "panic"
       /\ \A k \in 1..Len(onsets) :
            /\ onsets[k].sample_index < samples.len
            /\ k > 1 => onsets[k - 1].sample_index < onsets[k].sample_index
       /\ \A k \in 1..Len(segments) :
            /\ 0 <= segments[k][1]
            /\ segments[k][1] < segments[k][2]
            /\ segments[k][2] <= samples.len
       /\ pc = "dyn_done" => Len(segments) = Len(onsets)

\* analyze_dynamics has measured the segments of two detected onsets
C26_TwoDetectedSegments ==
  /\ pc = "dyn_done"
  /\ Len(onsets) >= 2
  /\ Len(segments) = Len(onsets)
  /\ flux # <<>>

-----------------------------------------------------------------------------
(* Properties of repeated calls *)

-----------------------------------------------------------------------------
(* Properties of synthesize_midi *)

\* C20: synthesize_midi returns the duration of the generated audio, the
\* number of rendered frames per channel divided by the sample rate, although
\* the buffer it measures is interleaved stereo.
C20_DurationOfAudio ==
  pc = "synth_done" =>
    /\ rendered = total_samples
    /\ duration = (rendered * 1000) \div params.sample_rate

\* number of places of seq that hold e
CountIn(seq, e) == Cardinality({k \in 1..Len(seq) : seq[k] = e})

\* every collected event has been sent exactly once
AllDispatched ==
  \A k \in 1..Len(collect(midi)) :
    CountIn(dispatched, collect(midi)[k]) = CountIn(collect(midi), collect(midi)[k])

\* C27: in synthesize_file every collected MIDI event is sent to the
\* synthesizer exactly once, in non-decreasing time order, and before the
\* chunk that contains its time is rendered; the chunk loop ends with
\* current_sample = total_samples and with every event sent.
C27_EventsDispatchedInOrder ==
  /\ pc # "panic"
  /\ \A k \in 1..Len(dispatched) :
       /\ CountIn(dispatched, dispatched[k]) <= CountIn(collect(midi), dispatched[k])
       /\ k > 1 => time_le(dispatched[k - 1].time, dispatched[k].time)
  /\ pc = "synth_chunks"
       => /\ rendered = current_sample
          /\ current_sample <= total_samples
          /\ \A k \in 1..Len(events) :
               (/\ events[k].time.k = "num"
                /\ events[k].time.v * params.sample_rate < rendered * 1000)
                 => k <= event_index /\ dispatched[k] = events[k]
  /\ pc \in {"synth_effects", "synth_write", "synth_done"}
       => /\ current_sample = total_samples
          /\ event_index = Len(events)
          /\ AllDispatched

\* C25: whenever reverb is asked of the GPU and the GPU is absent, refuses
\* the shader or fails the run, the effects are carried out by the CPU
\* fallback and the operation goes on, with an output as long as its input,
\* rather than ending in an error.
C25_CpuFallback ==
  (/\ pc \in {"synth_write", "synth_done", "synth_error"}
   /\ params.use_gpu
   /\ params.reverb
   /\ gpu \in {"no_device", "no_shader", "run_fails"})
    => /\ reverb_path = "cpu"
       /\ processed_samples = audio_samples

-----------------------------------------------------------------------------
(* Properties of every call *)

IsPitchCall == "min_frequency" \in DOMAIN params
IsOnsetCall == "hop_size" \in DOMAIN params

\* C4: under a valid configuration (hop_size > 0, fft_size > 0,
\* 0 < threshold <= 1, 0 < min_frequency < max_frequency) detect_pitch_yin
\* and detect_onsets never panic and never divide by zero, and a buffer that
\* is too short or silent, or a max_lag outside the window, gives None or an
\* empty list.
C4_NoFault ==
  /\ (/\ IsPitchCall
      /\ 0 < params.threshold
      /\ params.threshold <= 1000
      /\ 0 < params.min_frequency
      /\ params.min_frequency < params.max_frequency)
       => /\ pc # "panic"
          /\ better_tau.k = "num"
          /\ result # None => better_tau.v # 0
          /\ (/\ pc = "yin_done"
              /\ \/ samples.len < MinBufferLen
                 \/ rms < SilenceRms
                 \/ params.sample_rate \div params.min_frequency
                      >= Min(samples.len, MaxWindow) \div 2)
               => result = None
  /\ (/\ IsOnsetCall
      /\ params.hop_size > 0
      /\ params.fft_size > 0)
       => /\ pc # "panic"
          /\ (pc = "onset_done" /\ samples.len < params.fft_size) => onsets = <<>>

=============================================================================
